---------------------------- MODULE Spec2Model ----------------------------
(***************************************************************************)
(* splatbin (src/server.js, first variant, lines 1-515; database schema in *)
(* src/README.md lines 31-67): upload handlers, expiration policy,         *)
(* retrieval routes and the cleanup job.                                   *)
(*                                                                         *)
(* Time is counted in hours since the epoch: the code only ever adds       *)
(* hours * 60 * 60 * 1000 ms to Date.now(), and setHours(h, 0, 0, 0)       *)
(* zeroes everything below the hour.  Strings the code parses are tuples   *)
(* of one-character strings; undefined and "" (both falsy) are <<>>.       *)
(***************************************************************************)
EXTENDS Integers, Sequences, FiniteSets, TLC

VARIABLES
    max_hours,          \* config.expiry.max_hours
    allow_everlasting,  \* config.expiry.allow_everlasting
    tz,                 \* offset of the process's local time zone from UTC, hours
    now,                \* the wall clock (what new Date() reads)
    rows,               \* table uploads: id -> row, NoRow where there is none
    files,              \* uploads directory: stored file name -> content
    req,                \* HTTP requests whose database callback is pending
    scans,              \* cleanup runs whose SELECT returned, callback pending
    dels,               \* DELETE statements the cleanup job has queued: id -> count
    gone,               \* history: id -> expires_at of the row the cleanup job deleted
    resp                \* the last response (or the last value a policy call returned)

vars == <<max_hours, allow_everlasting, tz, now, rows, files, req, scans, dels, gone, resp>>

---------------------------------------------------------------------------
(* Bounds of the model *)

MaxTicks == 2           \* hours the clock may advance in a run
MaxIds == 2             \* distinct identifiers generateShortId may return
MaxScans == 1           \* cleanup runs in progress at once
MaxOverlap == 2         \* cleanup runs in progress at once where runs overlap
MaxInFlight == 1        \* HTTP requests waiting for their database callback at once
MaxHint == 3            \* largest ordinary expires_hours value submitted
MaxDay == 2             \* latest calendar day named by an `expires` value

(* Program and platform constants *)

HoursPerDay == 24
MaxTime == 5000         \* ECMAScript time range (8.64e15 ms = 2.4e9 h), scaled to the model's horizon
CharT == 84             \* 'T', the date/time separator of toISOString
CharSpace == 32         \* ' ', the date/time separator of SQLite's datetime()
LastPlainDay == 100     \* 9999-12-31, the last day toISOString writes with a four-digit year, scaled likewise
IdBytes == 6            \* iterations of the loop of generateShortId
NowStart == 22          \* the clock at server start: 22:00 UTC of day 0

---------------------------------------------------------------------------
(* JavaScript numbers and Dates *)

Num(n) == [nan |-> FALSE, val |-> n]
NaN == [nan |-> TRUE, val |-> 0]

\* a > b on numbers/Dates: false when either side is NaN
Gt(a, b) == ~a.nan /\ ~b.nan /\ a.val > b.val
\* a <= b
Le(a, b) == ~a.nan /\ ~b.nan /\ a.val <= b.val

\* new Date(timeValue): TimeClip
MakeDate(t) == IF t.nan \/ t.val > MaxTime \/ t.val < -MaxTime THEN NaN ELSE Num(t.val)

Null == <<>>
RangeError == <<"RangeError">>

\* Date.prototype.toISOString: 'YYYY-MM-DDTHH:00:00.000Z' as <<day, 'T', hour>>;
\* throws RangeError on an invalid Date
ToISOString(d) ==
    IF d.nan THEN RangeError
    ELSE <<d.val \div HoursPerDay, CharT, d.val % HoursPerDay>>

\* new Date(isoString) for a string toISOString produced
DateParse(iso) ==
    IF Len(iso) = 3 /\ iso[2] = CharT THEN MakeDate(Num(iso[1] * HoursPerDay + iso[3]))
    ELSE NaN

Digits == {"0", "1", "2", "3", "4", "5", "6", "7", "8", "9"}

DigitVal(c) ==
    CASE c = "0" -> 0 [] c = "1" -> 1 [] c = "2" -> 2 [] c = "3" -> 3 [] c = "4" -> 4
      [] c = "5" -> 5 [] c = "6" -> 6 [] c = "7" -> 7 [] c = "8" -> 8 [] c = "9" -> 9

RECURSIVE LeadingDigits(_, _)
\* value of the longest prefix of digits of s, continuing from acc
LeadingDigits(s, acc) ==
    IF s = <<>> \/ Head(s) \notin Digits THEN acc
    ELSE LeadingDigits(Tail(s), acc * 10 + DigitVal(Head(s)))

\* parseInt(s): optional sign, then the leading digits; NaN when there is none
ParseInt(s) ==
    LET signed == s # <<>> /\ Head(s) \in {"-", "+"}
        body == IF signed THEN Tail(s) ELSE s
    IN  IF body = <<>> \/ Head(body) \notin Digits THEN NaN
        ELSE IF signed /\ Head(s) = "-" THEN Num(-LeadingDigits(body, 0))
        ELSE Num(LeadingDigits(body, 0))

Min(a, b) == IF a <= b THEN a ELSE b

---------------------------------------------------------------------------
(* Expiration policy *)

\* date.setHours(h, 0, 0, 0): the hour of the LOCAL calendar day of d
SetHours(d, h) ==
    IF d.nan \/ h.nan THEN NaN
    ELSE MakeDate(Num(((d.val + tz) \div HoursPerDay) * HoursPerDay + h.val - tz))

\* An `expires` value: kind "absent" (undefined or ""), "nomatch" (a string the
\* pattern /^(\d{4}-\d{2}-\d{2})\s+(\d{1,2})$/ rejects) or "match"; for a match,
\* valid says whether the date part names a calendar day, day is that day
\* (days since the epoch) and hourStr the one or two digits after it.
NoExpires == [kind |-> "absent", valid |-> FALSE, day |-> 0, hourStr |-> <<>>]

\* parseExpiration accepting an instant equal to now (>= for >)
ParseExpiration_AcceptsNow(expiresIn, t) ==
    IF expiresIn.kind # "match" THEN Null
    ELSE
      LET date0 == IF expiresIn.valid THEN MakeDate(Num(expiresIn.day * HoursPerDay)) ELSE NaN
          date == SetHours(date0, ParseInt(expiresIn.hourStr))
          maxDate == MakeDate(Num(t + max_hours))
      IN  IF ~date.nan /\ date.val >= t
          THEN IF max_hours # -1 /\ Gt(date, maxDate)
               THEN ToISOString(maxDate)
               ELSE ToISOString(date)
          ELSE Null

\* parseExpiration without the comparison against maxDate
ParseExpiration_NoClamp(expiresIn, t) ==
    IF expiresIn.kind # "match" THEN Null
    ELSE
      LET date0 == IF expiresIn.valid THEN MakeDate(Num(expiresIn.day * HoursPerDay)) ELSE NaN
          date == SetHours(date0, ParseInt(expiresIn.hourStr))
      IN  IF Gt(date, Num(t)) THEN ToISOString(date) ELSE Null

ParseExpiration(expiresIn, t) ==
    IF expiresIn.kind = "absent" THEN Null
    ELSE IF expiresIn.kind # "match" THEN Null
    ELSE
      LET date0 == IF expiresIn.valid THEN MakeDate(Num(expiresIn.day * HoursPerDay)) ELSE NaN
          date == SetHours(date0, ParseInt(expiresIn.hourStr))
          maxDate == MakeDate(Num(t + max_hours))
      IN  IF Gt(date, Num(t))
          THEN IF max_hours # -1 /\ Gt(date, maxDate)
               THEN ToISOString(maxDate)
               ELSE ToISOString(date)
          ELSE Null

Max(a, b) == IF a >= b THEN a ELSE b

\* parseExpirationHours with Math.max for Math.min
ParseExpirationHours_Max(hoursInput, t) ==
    IF hoursInput = <<>> THEN Null
    ELSE
      LET hours == ParseInt(hoursInput) IN
      IF hours.nan \/ hours.val <= 0 THEN Null
      ELSE
        LET actualHours == IF max_hours = -1 THEN hours.val ELSE Max(hours.val, max_hours)
        IN  ToISOString(MakeDate(Num(t + actualHours)))

\* parseExpirationHours with line 127 testing isNaN only and line 130 testing -1 only
ParseExpirationHours_ZeroFallsThrough(hoursInput, t) ==
    IF hoursInput = <<>> THEN Null
    ELSE
      LET hours == ParseInt(hoursInput) IN
      IF hours.nan THEN Null
      ELSE IF hours.val = -1 /\ allow_everlasting THEN Null
      ELSE IF (hours.val = -1 \/ hours.val = 0) /\ ~allow_everlasting
           THEN IF max_hours = -1 THEN Null
                ELSE ToISOString(MakeDate(Num(t + max_hours)))
      ELSE
        LET actualHours == IF max_hours = -1 THEN hours.val ELSE Min(hours.val, max_hours)
        IN  ToISOString(MakeDate(Num(t + actualHours)))

\* lines 123-152 as written: the tests of lines 130 and 135 come after the
\* return of line 127
ParseExpirationHours(hoursInput, t) ==
    IF hoursInput = <<>> THEN Null
    ELSE
      LET hours == ParseInt(hoursInput) IN
      IF hours.nan \/ hours.val <= 0 THEN Null
      ELSE IF (hours.val = -1 \/ hours.val = 0) /\ allow_everlasting THEN Null
      ELSE IF (hours.val = -1 \/ hours.val = 0) /\ ~allow_everlasting
           THEN IF max_hours = -1 THEN Null
                ELSE ToISOString(MakeDate(Num(t + max_hours)))
      ELSE
        LET actualHours == IF max_hours = -1 THEN hours.val ELSE Min(hours.val, max_hours)
        IN  ToISOString(MakeDate(Num(t + actualHours)))

\* isExpired with < for <=
IsExpired_Strict(expiresAt, t) ==
    IF expiresAt = Null THEN FALSE
    ELSE ~DateParse(expiresAt).nan /\ DateParse(expiresAt).val < t

\* isExpired(expiresAt), lines 155-158
IsExpired(expiresAt, t) ==
    IF expiresAt = Null THEN FALSE
    ELSE Le(DateParse(expiresAt), Num(t))


---------------------------------------------------------------------------
(* Names, identifiers and the text heuristics *)

Ids == 1..MaxIds

\* String.prototype.trim on the blank the model's inputs use
RECURSIVE TrimLeft(_)
TrimLeft(s) == IF s # <<>> /\ Head(s) = " " THEN TrimLeft(Tail(s)) ELSE s
RECURSIVE TrimRight(_)
TrimRight(s) ==
    IF s # <<>> /\ s[Len(s)] = " " THEN TrimRight(SubSeq(s, 1, Len(s) - 1)) ELSE s
Trim(s) == TrimRight(TrimLeft(s))

\* path.extname: from the last '.' to the end; "" when there is no '.' or the
\* only one is the first character
ExtName(name) ==
    LET dots == {i \in 1..Len(name) : name[i] = "."}
        last == CHOOSE i \in dots : \A j \in dots : j <= i
    IN  IF dots = {} \/ last = 1 THEN <<>> ELSE SubSeq(name, last, Len(name))

\* multer's filename callback: id + ext, kept as the pair
StoredName(id, ext) == [id |-> id, ext |-> ext]
\* path.parse(filename).name
ParsedName(filename) == filename.id

TextExtensions == {<<".", "t", "x", "t">>, <<".", "m", "d">>}

\* isTextFile(mimetype, filename): a text/ MIME type or a listed extension
IsTextFile(mimetype, filename) ==
    \/ mimetype = "text/plain"
    \/ ExtName(filename) \in TextExtensions

\* the SELECT of line 165: expires_at IS NOT NULL AND expires_at <= datetime("now"),
\* a comparison of two TEXT values, 'YYYY-MM-DDTHH:MM:SS.sssZ' against
\* 'YYYY-MM-DD HH:MM:SS', character by character
SqlDatetimeNow(t) == <<t \div HoursPerDay, CharSpace, t % HoursPerDay>>

\* toISOString writes a year after 9999 with six digits behind a '+', which
\* sorts before every digit
Extended(a) == a[1] > LastPlainDay

TextLe(a, b) ==
    IF Extended(a) # Extended(b) THEN Extended(a)
    ELSE \/ a[1] < b[1]
         \/ a[1] = b[1] /\ a[2] < b[2]
         \/ a[1] = b[1] /\ a[2] = b[2] /\ a[3] <= b[3]

SqlExpired(expiresAt, t) ==
    expiresAt # Null /\ TextLe(expiresAt, SqlDatetimeNow(t))

---------------------------------------------------------------------------
(* Requests the model submits *)

RECURSIVE IntToString(_)
\* the decimal digits of n >= 0
IntToString(n) ==
    LET d == CHOOSE c \in Digits : DigitVal(c) = n % 10
    IN  IF n < 10 THEN <<d>> ELSE Append(IntToString(n \div 10), d)

\* a || b on strings
Or(a, b) == IF a # <<>> THEN a ELSE b
\* a || b on `expires` values
OrExpires(a, b) == IF a.kind # "absent" THEN a ELSE b

DateHour(day, hourStr) == [kind |-> "match", valid |-> TRUE, day |-> day, hourStr |-> hourStr]

PasteTxt == <<"p", ".", "t", "x", "t">>      \* 'paste.txt'
DotTxt == <<".", "t", "x", "t">>             \* '.txt'
NameB == <<"b", ".", "p", "n", "g">>

\* the file part of a multipart request
PartB == [originalname |-> NameB, mimetype |-> "image/png", content |-> <<"x">>]

\* the expiration fields of a request, in the body and in the query string
Hint(bodyHours, queryHours, bodyExpires, queryExpires) ==
    [ bodyHours |-> bodyHours, queryHours |-> queryHours,
      bodyExpires |-> bodyExpires, queryExpires |-> queryExpires ]

NoHint == Hint(<<>>, <<>>, NoExpires, NoExpires)

\* expires_hours values: none, 0, -1, the ordinary counts, one past any Date
HoursInputs ==
    {<<>>, <<"0">>, <<"-", "1">>, <<"9", "9", "9", "9">>}
        \cup {IntToString(n) : n \in 1..MaxHint}

\* expires values: midnight and 01:00 of the days up to MaxDay
ExpiresInputs == {DateHour(d, h) : d \in 1..MaxDay, h \in {<<"0">>, <<"1">>}}

\* each field alone, the query string as fallback, and both fields at once
UploadHints ==
    {Hint(h, <<>>, NoExpires, NoExpires) : h \in HoursInputs}
        \cup {Hint(<<>>, <<>>, e, NoExpires) : e \in ExpiresInputs}
        \cup { Hint(<<>>, <<"1">>, NoExpires, NoExpires),
               Hint(<<>>, <<>>, NoExpires, DateHour(1, <<"0">>)),
               Hint(<<"1">>, <<>>, DateHour(1, <<"1">>), NoExpires) }

---------------------------------------------------------------------------
(* State *)

NoRow == [id |-> 0]
NoFile == [id |-> 0, ext |-> <<>>]
NoFiles == [f \in {} |-> <<>>]
Idle == [op |-> "none"]

\* a function without the keys in ks
Without(f, ks) == [k \in DOMAIN f \ ks |-> f[k]]
\* a sequence without its i-th element
RemoveAt(q, i) == SubSeq(q, 1, i - 1) \o SubSeq(q, i + 1, Len(q))

config == <<max_hours, allow_everlasting, tz>>

\* the server after startup, under the configuration given
InitWith(maxHours, everlasting, zones) ==
    /\ max_hours \in maxHours
    /\ allow_everlasting \in everlasting
    /\ tz \in zones
    /\ now = NowStart
    /\ rows = [i \in Ids |-> NoRow]
    /\ files = NoFiles
    /\ req = <<>>
    /\ scans = <<>>
    /\ dels = [i \in Ids |-> 0]
    /\ gone = [i \in Ids |-> Null]
    /\ resp = Idle

---------------------------------------------------------------------------
(* Upload handlers *)

\* multer's upload.single('file'): the file part is streamed to id + ext before
\* the handler runs (an existing file of that name is overwritten); a part over
\* the size limit is removed again and the request ends in the error handler
Multer(hasFile, part, id, tooLarge) ==
    LET fname == StoredName(id, ExtName(part.originalname)) IN
    IF ~hasFile THEN files
    ELSE IF tooLarge THEN Without(files, {fname})
    ELSE (fname :> part.content) @@ Without(files, {fname})

\* lines 236-244
ApiExpiresAt(expiresHours, expiresIn, t) ==
    IF expiresHours # <<>> THEN ParseExpirationHours(expiresHours, t)
    ELSE IF expiresIn.kind # "absent" THEN ParseExpiration(expiresIn, t)
    ELSE Null

\* the form handler reading no expiration field at all
FormExpiresAt_Never(expiresHours, t) == Null

\* lines 285-288
FormExpiresAt(expiresHours, t) ==
    IF expiresHours # <<>> THEN ParseExpirationHours(expiresHours, t)
    ELSE Null

\* the file branch taking file_type from the uploaded name, not the display name
FileRow_TypeOfUpload(part, id, customName, expiresAt) ==
    LET filename == StoredName(id, ExtName(part.originalname))
        originalName == Or(customName, part.originalname)
    IN  [ id |-> ParsedName(filename),
          filename |-> filename,
          original_name |-> originalName,
          file_type |-> ExtName(part.originalname),
          file_size |-> Len(part.content),
          content_type |-> part.mimetype,
          is_text |-> IsTextFile(part.mimetype, part.originalname),
          expires_at |-> expiresAt ]

\* the row the file branch of either handler inserts (lines 251-261, 345-355)
FileRow(part, id, customName, expiresAt) ==
    LET filename == StoredName(id, ExtName(part.originalname))
        originalName == Or(customName, part.originalname)
    IN  [ id |-> ParsedName(filename),
          filename |-> filename,
          original_name |-> originalName,
          file_type |-> ExtName(originalName),
          file_size |-> Len(part.content),
          content_type |-> part.mimetype,
          is_text |-> IsTextFile(part.mimetype, part.originalname),
          expires_at |-> expiresAt ]

\* the row the text branch inserts (lines 292-314)
TextRow(textContent, id, customName, expiresAt) ==
    LET filename == Or(customName, PasteTxt)
        ext == Or(ExtName(filename), DotTxt)
    IN  [ id |-> id,
          filename |-> StoredName(id, ext),
          original_name |-> filename,
          file_type |-> ext,
          file_size |-> Len(textContent),
          content_type |-> "text/plain",
          is_text |-> TRUE,
          expires_at |-> expiresAt ]

\* a response of an upload route; stored is the file the request left on disk
UploadResponse(op, status, cause, id, expiresAt, stored) ==
    [ op |-> op, status |-> status, cause |-> cause, id |-> id,
      expires_at |-> expiresAt, stored |-> stored ]

\* a queued INSERT; hint and at record the request's expiration fields and the
\* time the handler ran
PendingInsert(op, row, hint, at) ==
    [kind |-> "insert", op |-> op, row |-> row, hint |-> hint, at |-> at]

\* POST /api/upload up to stmt.run (lines 222-261); body.text_content is never
\* read: the refusal of a request without file part records it as text
ApiUploadRequest(hasFile, part, id, tooLarge, textContent, customNameIn, hint) ==
    LET op == "POST /api/upload"
        customName == Trim(customNameIn)
        expiresIn == OrExpires(hint.bodyExpires, hint.queryExpires)
        expiresHours == Or(hint.bodyHours, hint.queryHours)
        expiresAt == ApiExpiresAt(expiresHours, expiresIn, now)
        row == FileRow(part, id, customName, expiresAt)
    IN
    /\ Len(req) < MaxInFlight
    /\ files' = Multer(hasFile, part, id, tooLarge)
    /\ IF hasFile /\ tooLarge
       THEN /\ resp' = UploadResponse(op, 413, "too large", 0, Null, NoFile)
            /\ UNCHANGED req
       ELSE IF ~hasFile
       THEN /\ resp' = [text |-> textContent]
                            @@ UploadResponse(op, 400, "no file", 0, Null, NoFile)
            /\ UNCHANGED req
       ELSE IF expiresAt = RangeError
       THEN /\ resp' = UploadResponse(op, 500, "threw", 0, Null, row.filename)
            /\ UNCHANGED req
       ELSE /\ req' = Append(req, PendingInsert(op, row, hint, now))
            /\ UNCHANGED resp
    /\ UNCHANGED <<config, now, rows, scans, dels, gone>>

\* POST /upload up to stmt.run (lines 280-355); only body.expires_hours is read
FormUploadRequest(hasFile, part, id, tooLarge, textContent, textId, customNameIn, hint) ==
    LET op == "POST /upload"
        customName == Trim(customNameIn)
        expiresAt == FormExpiresAt(hint.bodyHours, now)
        afterMulter == Multer(hasFile, part, id, tooLarge)
        textRow == TextRow(textContent, textId, customName, expiresAt)
        fileRow == FileRow(part, id, customName, expiresAt)
    IN
    /\ Len(req) < MaxInFlight
    /\ IF hasFile /\ tooLarge
       THEN /\ files' = afterMulter
            /\ resp' = UploadResponse(op, 413, "too large", 0, Null, NoFile)
            /\ UNCHANGED req
       ELSE IF expiresAt = RangeError
       THEN /\ files' = afterMulter
            /\ resp' = UploadResponse(op, 500, "threw", 0, Null,
                                      IF hasFile THEN fileRow.filename ELSE NoFile)
            /\ UNCHANGED req
       ELSE IF textContent # <<>> /\ Len(Trim(textContent)) > 0
       THEN /\ files' = (textRow.filename :> textContent)
                            @@ Without(afterMulter, {textRow.filename})
            /\ req' = Append(req, PendingInsert(op, textRow, hint, now))
            /\ UNCHANGED resp
       ELSE IF ~hasFile
       THEN /\ files' = afterMulter
            /\ resp' = UploadResponse(op, 400, "no payload", 0, Null, NoFile)
            /\ UNCHANGED req
       ELSE /\ files' = afterMulter
            /\ req' = Append(req, PendingInsert(op, fileRow, hint, now))
            /\ UNCHANGED resp
    /\ UNCHANGED <<config, now, rows, scans, dels, gone>>

\* the INSERT and the callback of stmt.run (lines 261-274, 315-322, 355-362):
\* the statement fails on a database error or when the id is already a key
InsertCallback(i, dbErr) ==
    LET r == req[i]
        failed == dbErr \/ rows[r.row.id] # NoRow
    IN
    /\ r.kind = "insert"
    /\ req' = RemoveAt(req, i)
    /\ rows' = IF failed THEN rows ELSE [rows EXCEPT ![r.row.id] = r.row]
    /\ resp' = IF failed
               THEN UploadResponse(r.op, 500, "insert failed", 0, Null, r.row.filename)
               ELSE UploadResponse(r.op, IF r.op = "POST /upload" THEN 302 ELSE 200,
                                   "none", r.row.id, r.row.expires_at, r.row.filename)
    /\ UNCHANGED <<config, now, files, scans, dels, gone>>

---------------------------------------------------------------------------
(* Retrieval *)

Routes == {"GET /f/:id", "GET /raw/:id", "GET /download/:id"}

\* db.get('SELECT * FROM uploads WHERE id = ?') of the three routes
GetSelect(op, id, dbErr) ==
    /\ Len(req) < MaxInFlight
    /\ req' = Append(req, [ kind |-> "get", op |-> op, id |-> id, err |-> dbErr,
                            row |-> IF dbErr THEN NoRow ELSE rows[id] ])
    /\ UNCHANGED <<config, now, rows, files, scans, dels, gone, resp>>

\* the callback looking for the file before it tests the expiration
GetStatus_DiskFirst(op, err, row, onDisk, readErr, t) ==
    IF op = "GET /f/:id" /\ err THEN 500
    ELSE IF err \/ row = NoRow THEN 404
    ELSE IF ~onDisk THEN 404
    ELSE IF IsExpired(row.expires_at, t) THEN 410
    ELSE IF op = "GET /f/:id" /\ row.is_text /\ readErr THEN 500
    ELSE 200

\* the callback without the existsSync test: the missing file surfaces as an error
GetStatus_NoDiskTest(op, err, row, onDisk, readErr, t) ==
    IF op = "GET /f/:id" /\ err THEN 500
    ELSE IF err \/ row = NoRow THEN 404
    ELSE IF IsExpired(row.expires_at, t) THEN 410
    ELSE IF ~onDisk THEN 500
    ELSE IF op = "GET /f/:id" /\ row.is_text /\ readErr THEN 500
    ELSE 200

\* the status the callback answers with (lines 370-413, 421-444, 453-470)
GetStatus(op, err, row, onDisk, readErr, t) ==
    IF op = "GET /f/:id" /\ err THEN 500
    ELSE IF err \/ row = NoRow THEN 404
    ELSE IF IsExpired(row.expires_at, t) THEN 410
    ELSE IF ~onDisk THEN 404
    ELSE IF op = "GET /f/:id" /\ row.is_text /\ readErr THEN 500
    ELSE 200

\* what a 200 carries: the text or the bytes; the binary view page carries none
GetBody(op, row) ==
    IF op = "GET /f/:id" /\ ~row.is_text THEN <<>> ELSE files[row.filename]

GetCallback(i, readErr) ==
    LET r == req[i]
        onDisk == r.row # NoRow /\ r.row.filename \in DOMAIN files
        status == GetStatus(r.op, r.err, r.row, onDisk, readErr, now)
    IN
    /\ r.kind = "get"
    /\ req' = RemoveAt(req, i)
    /\ resp' = [ op |-> r.op, id |-> r.id, status |-> status,
                 body |-> IF status = 200 THEN GetBody(r.op, r.row) ELSE <<>> ]
    /\ UNCHANGED <<config, now, rows, files, scans, dels, gone>>

---------------------------------------------------------------------------
(* Cleanup job *)

\* cleanup runs between their SELECT and their last DELETE
InProgress ==
    LET most == CHOOSE n \in {dels[j] : j \in Ids} : \A j \in Ids : dels[j] <= n
    IN  Len(scans) + most

\* the ids of the rows the SELECT of line 165 returns
SelectIn(R, t) == {j \in Ids : R[j] # NoRow /\ SqlExpired(R[j].expires_at, t)}
SelectExpired == SelectIn(rows, now)

\* a whole run of cleanupExpiredFiles without errors, on table R and directory F
\* at time t: the file of every selected row unlinked, every selected row deleted
TickRows_First(R, t) ==
    LET first == CHOOSE j \in SelectIn(R, t) : \A k \in SelectIn(R, t) : j <= k
    IN  IF SelectIn(R, t) = {} THEN R ELSE [R EXCEPT ![first] = NoRow]
TickRows(R, t) == [j \in Ids |-> IF j \in SelectIn(R, t) THEN NoRow ELSE R[j]]
TickFiles(R, F, t) == Without(F, {R[j].filename : j \in SelectIn(R, t)})

\* cleanupExpiredFiles up to the callback of db.all (lines 161-174), with
\* fewer than limit runs in progress
ReaperScanWithin(limit, dbErr) ==
    LET found == { [id |-> i, filename |-> rows[i].filename] : i \in SelectExpired }
    IN
    /\ InProgress < limit
    /\ scans' = IF dbErr \/ found = {} THEN scans ELSE Append(scans, found)
    /\ UNCHANGED <<config, now, rows, files, req, dels, gone, resp>>

ReaperScan(dbErr) == ReaperScanWithin(MaxScans, dbErr)

\* the forEach without existsSync and without try/catch: unlinkSync of a file
\* that is not there throws out of the loop (rows taken in id order), and the
\* rows from that one on are not reached
ReaperCallback_NoExistsTest(i, failing) ==
    LET found == scans[i]
        absent == {e \in found : e.filename \notin DOMAIN files}
        reached == {e \in found : \A x \in absent : e.id < x.id}
        unlinked == {e.filename : e \in reached \ failing}
    IN
    /\ failing \subseteq {e \in found : e.filename \in DOMAIN files}
    /\ scans' = RemoveAt(scans, i)
    /\ files' = Without(files, unlinked)
    /\ dels' = [j \in Ids |-> dels[j] + Cardinality({e \in reached : e.id = j})]
    /\ UNCHANGED <<config, now, rows, req, gone, resp>>

\* the forEach leaving out the DELETE of a row whose file is not on disk
ReaperCallback_SkipsMissing(i, failing) ==
    LET found == scans[i]
        unlinked == {e.filename : e \in found \ failing}
    IN
    /\ failing \subseteq {e \in found : e.filename \in DOMAIN files}
    /\ scans' = RemoveAt(scans, i)
    /\ files' = Without(files, unlinked)
    /\ dels' = [j \in Ids |-> dels[j] + Cardinality({e \in found : e.id = j
                                                        /\ e.filename \in DOMAIN files})]
    /\ UNCHANGED <<config, now, rows, req, gone, resp>>

\* the forEach without its try/catch: the first failing unlink (rows taken in
\* id order) throws out of the loop, and the rows after it are not reached
ReaperCallback_StopsAtFailure(i, failing) ==
    LET found == scans[i]
        reached == {e \in found : \A x \in failing : e.id < x.id}
        unlinked == {e.filename : e \in reached}
    IN
    /\ failing \subseteq {e \in found : e.filename \in DOMAIN files}
    /\ scans' = RemoveAt(scans, i)
    /\ files' = Without(files, unlinked)
    /\ dels' = [j \in Ids |-> dels[j] + Cardinality({e \in reached : e.id = j})]
    /\ UNCHANGED <<config, now, rows, req, gone, resp>>

\* rows.forEach (lines 180-207): each file that exists is unlinked, an error of
\* unlinkSync is caught (failing: the files it fails on), and a DELETE is queued
ReaperCallback(i, failing) ==
    LET found == scans[i]
        unlinked == {e.filename : e \in found \ failing}
    IN
    /\ failing \subseteq {e \in found : e.filename \in DOMAIN files}
    /\ scans' = RemoveAt(scans, i)
    /\ files' = Without(files, unlinked)
    /\ dels' = [j \in Ids |-> dels[j] + Cardinality({e \in found : e.id = j})]
    /\ UNCHANGED <<config, now, rows, req, gone, resp>>

\* db.run('DELETE FROM uploads WHERE id = ?') and its callback (lines 194-206)
ReaperDelete(id, dbErr) ==
    /\ dels[id] > 0
    /\ dels' = [dels EXCEPT ![id] = @ - 1]
    /\ rows' = IF dbErr THEN rows ELSE [rows EXCEPT ![id] = NoRow]
    /\ gone' = IF dbErr \/ rows[id] = NoRow THEN gone
               ELSE [gone EXCEPT ![id] = rows[id].expires_at]
    /\ UNCHANGED <<config, now, files, req, scans, resp>>

---------------------------------------------------------------------------
(* Environment *)

Tick ==
    /\ now < NowStart + MaxTicks
    /\ now' = now + 1
    /\ UNCHANGED <<config, rows, files, req, scans, dels, gone, resp>>

\* a file removed from the uploads directory from outside the process
ExternalRemoveFile(f) ==
    /\ f \in DOMAIN files
    /\ files' = Without(files, {f})
    /\ UNCHANGED <<config, now, rows, req, scans, dels, gone, resp>>

---------------------------------------------------------------------------
(* The service: uploads, retrievals, the cleanup job and the clock *)

LifeHints == {NoHint, Hint(<<"1">>, <<>>, NoExpires, NoExpires)}

Init == InitWith({2}, {TRUE}, {0})

LifeIds == {1}

Next ==
    \/ \E hasFile \in BOOLEAN, id \in LifeIds, tooLarge \in BOOLEAN, hint \in LifeHints :
            ApiUploadRequest(hasFile, PartB, id, tooLarge, <<>>, <<>>, hint)
    \/ \E hasFile \in BOOLEAN, id \in LifeIds, tooLarge \in BOOLEAN,
          textContent \in {<<>>, <<"y", "o">>}, textId \in LifeIds, hint \in LifeHints :
            FormUploadRequest(hasFile, PartB, id, tooLarge, textContent, textId,
                              <<>>, hint)
    \/ \E i \in 1..Len(req), dbErr \in BOOLEAN : InsertCallback(i, dbErr)
    \/ \E op \in Routes, id \in LifeIds, dbErr \in BOOLEAN : GetSelect(op, id, dbErr)
    \/ \E i \in 1..Len(req), readErr \in BOOLEAN : GetCallback(i, readErr)
    \/ \E dbErr \in BOOLEAN : ReaperScan(dbErr)
    \/ \E i \in 1..Len(scans) : \E failing \in SUBSET scans[i] : ReaperCallback(i, failing)
    \/ \E id \in LifeIds, dbErr \in BOOLEAN : ReaperDelete(id, dbErr)
    \/ Tick
    \/ \E f \in DOMAIN files : ExternalRemoveFile(f)

Spec == Init /\ [][Next]_vars

---------------------------------------------------------------------------
(* The service with the uploads directory touched by the server alone *)

\* text_content values: none and two different pastes
ClosedTexts == {<<>>, <<"y", "o">>, <<"z">>}

NextClosed ==
    \/ \E hasFile \in BOOLEAN, id \in LifeIds, tooLarge \in BOOLEAN, hint \in LifeHints :
            ApiUploadRequest(hasFile, PartB, id, tooLarge, <<>>, <<>>, hint)
    \/ \E hasFile \in BOOLEAN, id \in LifeIds, tooLarge \in BOOLEAN,
          textContent \in ClosedTexts, textId \in LifeIds, hint \in LifeHints :
            FormUploadRequest(hasFile, PartB, id, tooLarge, textContent, textId,
                              <<>>, hint)
    \/ \E i \in 1..Len(req), dbErr \in BOOLEAN : InsertCallback(i, dbErr)
    \/ \E op \in Routes, id \in LifeIds, dbErr \in BOOLEAN : GetSelect(op, id, dbErr)
    \/ \E i \in 1..Len(req), readErr \in BOOLEAN : GetCallback(i, readErr)
    \/ \E dbErr \in BOOLEAN : ReaperScan(dbErr)
    \/ \E i \in 1..Len(scans) : \E failing \in SUBSET scans[i] : ReaperCallback(i, failing)
    \/ \E id \in LifeIds, dbErr \in BOOLEAN : ReaperDelete(id, dbErr)
    \/ Tick

SpecClosed == Init /\ [][NextClosed]_vars

---------------------------------------------------------------------------
(* Records and the cleanup job, under a finite and an unlimited max_hours *)

ReaperMaxHours == {-1, 2}

\* no field, one hour, and a count that reaches past the year 9999
ReaperHints ==
    { NoHint,
      Hint(<<"1">>, <<>>, NoExpires, NoExpires),
      Hint(<<"3", "0", "0", "0">>, <<>>, NoExpires, NoExpires) }

InitReaper == InitWith(ReaperMaxHours, {TRUE}, {0})

NextReaper ==
    \/ \E id \in LifeIds, hint \in ReaperHints :
            ApiUploadRequest(TRUE, PartB, id, FALSE, <<>>, <<>>, hint)
    \/ \E i \in 1..Len(req), dbErr \in BOOLEAN : InsertCallback(i, dbErr)
    \/ \E dbErr \in BOOLEAN : ReaperScan(dbErr)
    \/ \E i \in 1..Len(scans) : \E failing \in SUBSET scans[i] : ReaperCallback(i, failing)
    \/ \E id \in LifeIds, dbErr \in BOOLEAN : ReaperDelete(id, dbErr)
    \/ Tick
    \/ \E f \in DOMAIN files : ExternalRemoveFile(f)

SpecReaper == InitReaper /\ [][NextReaper]_vars

---------------------------------------------------------------------------
(* The cleanup job under fair scheduling, every upload drawing an unused id *)

\* an id that no row, file, pending INSERT or deleted record carries
Fresh(id) ==
    /\ rows[id] = NoRow
    /\ gone[id] = Null
    /\ \A f \in DOMAIN files : f.id # id
    /\ \A i \in 1..Len(req) : req[i].kind = "insert" => req[i].row.id # id

NextFair ==
    \/ \E id \in Ids, hint \in ReaperHints :
            Fresh(id) /\ ApiUploadRequest(TRUE, PartB, id, FALSE, <<>>, <<>>, hint)
    \/ \E i \in 1..Len(req), dbErr \in BOOLEAN : InsertCallback(i, dbErr)
    \/ \E dbErr \in BOOLEAN : ReaperScan(dbErr)
    \/ \E i \in 1..Len(scans) : \E failing \in SUBSET scans[i] : ReaperCallback(i, failing)
    \/ \E id \in Ids, dbErr \in BOOLEAN : ReaperDelete(id, dbErr)
    \/ Tick

\* the clock advances; cron keeps calling cleanupExpiredFiles and its SELECT
\* does not fail for ever; sqlite3 delivers every callback; unlinkSync and the
\* DELETE do not fail for ever
Fairness ==
    /\ WF_vars(Tick)
    /\ SF_vars(ReaperScan(FALSE))
    /\ SF_vars(\E i \in 1..Len(scans) : ReaperCallback(i, {}))
    /\ \A id \in Ids : SF_vars(ReaperDelete(id, FALSE))

SpecFair == InitReaper /\ [][NextFair]_vars /\ Fairness

---------------------------------------------------------------------------
(* Overlapping cleanup runs: the run of the timer at start-up (line 497) and a
   run of cron (line 490) may both be between their SELECT and their last
   DELETE; every upload draws an unused id, the disk and the database work *)

NextOverlap ==
    \/ \E id \in Ids, hint \in ReaperHints :
            Fresh(id) /\ ApiUploadRequest(TRUE, PartB, id, FALSE, <<>>, <<>>, hint)
    \/ \E i \in 1..Len(req), dbErr \in BOOLEAN : InsertCallback(i, dbErr)
    \/ \E dbErr \in BOOLEAN : ReaperScanWithin(MaxOverlap, dbErr)
    \/ \E i \in 1..Len(scans) : ReaperCallback(i, {})
    \/ \E id \in Ids : ReaperDelete(id, FALSE)
    \/ Tick

SpecOverlap == InitReaper /\ [][NextOverlap]_vars

---------------------------------------------------------------------------
(* The upload handlers alone, under every configuration and expiration field *)

UploadMaxHours == {-1, 0, 2}

InitUpload == InitWith(UploadMaxHours, BOOLEAN, {0})

NextUpload ==
    \/ \E hasFile \in BOOLEAN, tooLarge \in BOOLEAN, hint \in UploadHints :
            ApiUploadRequest(hasFile, PartB, 1, tooLarge, <<>>, <<>>, hint)
    \/ \E hasFile \in BOOLEAN, tooLarge \in BOOLEAN, textContent \in {<<>>, <<"y", "o">>},
          hint \in UploadHints :
            FormUploadRequest(hasFile, PartB, 1, tooLarge, textContent, 1, <<>>, hint)
    \/ \E i \in 1..Len(req), dbErr \in BOOLEAN : InsertCallback(i, dbErr)
    \/ Tick

SpecUpload == InitUpload /\ [][NextUpload]_vars

---------------------------------------------------------------------------
(* The expiration policy alone: parseExpirationHours and parseExpiration *)

PolicyMaxHours == {-2, -1, 0, 2, 168}
PolicyZones == {-5, 0, 2}

PolicyHours ==
    HoursInputs \cup { <<"-", "2">>, <<"5", "0", "0">>, <<"a", "b">>, <<"2", "x">> }

PolicyExpires ==
    ExpiresInputs
        \cup {DateHour(d, h) : d \in 0..MaxDay, h \in {<<"2", "3">>, <<"3", "0">>}}
        \cup { NoExpires,
               [kind |-> "nomatch", valid |-> FALSE, day |-> 0, hourStr |-> <<>>],
               [kind |-> "match", valid |-> FALSE, day |-> 0, hourStr |-> <<"1">>] }

CallParseExpirationHours(hoursInput) ==
    /\ resp' = [ op |-> "parseExpirationHours", hours |-> hoursInput, at |-> now,
                 result |-> ParseExpirationHours(hoursInput, now) ]
    /\ UNCHANGED <<config, now, rows, files, req, scans, dels, gone>>

CallParseExpiration(expiresIn) ==
    /\ resp' = [ op |-> "parseExpiration", expires |-> expiresIn, at |-> now,
                 result |-> ParseExpiration(expiresIn, now) ]
    /\ UNCHANGED <<config, now, rows, files, req, scans, dels, gone>>

InitPolicy == InitWith(PolicyMaxHours, BOOLEAN, PolicyZones)

NextPolicy ==
    \/ \E hoursInput \in PolicyHours : CallParseExpirationHours(hoursInput)
    \/ \E expiresIn \in PolicyExpires : CallParseExpiration(expiresIn)
    \/ Tick

SpecPolicy == InitPolicy /\ [][NextPolicy]_vars

---------------------------------------------------------------------------
(* The upload handlers on the fields of a request: text, custom name, expires *)

NameR == <<"r", ".", "p", "d", "f">>          \* 'r.pdf'
NameN == <<"n">>                              \* 'n', a name without extension

FieldNames == {<<>>, NameR, NameN}
FieldTexts == {<<>>, <<"y", "o">>}

\* no field, expires_hours, and an absolute expires
FieldHints ==
    { NoHint,
      Hint(<<"1">>, <<>>, NoExpires, NoExpires),
      Hint(<<>>, <<>>, DateHour(1, <<"1">>), NoExpires) }

NextFields ==
    \/ \E hasFile \in BOOLEAN, tooLarge \in BOOLEAN, textContent \in FieldTexts,
          customNameIn \in FieldNames, hint \in FieldHints :
            ApiUploadRequest(hasFile, PartB, 1, tooLarge, textContent, customNameIn, hint)
    \/ \E hasFile \in BOOLEAN, tooLarge \in BOOLEAN, textContent \in FieldTexts,
          customNameIn \in FieldNames, hint \in FieldHints :
            FormUploadRequest(hasFile, PartB, 1, tooLarge, textContent, 2,
                              customNameIn, hint)
    \/ \E i \in 1..Len(req), dbErr \in BOOLEAN : InsertCallback(i, dbErr)

SpecFields == Init /\ [][NextFields]_vars

---------------------------------------------------------------------------
(* generateShortId alone, on the characters it returns *)

HexDigits == << "0", "1", "2", "3", "4", "5", "6", "7",
                "8", "9", "a", "b", "c", "d", "e", "f" >>

\* crypto.randomBytes(1).toString('hex'): two hex digits, the first one a 0
\* for a byte below 16
ByteToHex(b) == <<HexDigits[(b \div 16) + 1], HexDigits[(b % 16) + 1]>>

\* values of crypto.randomBytes(1)[0] the model draws
SampleBytes == {0, 10, 255}

RECURSIVE GenerateShortId(_, _)
\* the loop of lines 11-13 from iteration i on, bytes[i] the byte drawn there
GenerateShortId(bytes, i) ==
    IF i > IdBytes THEN <<>>
    ELSE ByteToHex(bytes[i]) \o GenerateShortId(bytes, i + 1)

CallGenerateShortId(bytes) ==
    /\ resp' = [op |-> "generateShortId", result |-> GenerateShortId(bytes, 1)]
    /\ UNCHANGED <<config, now, rows, files, req, scans, dels, gone>>

InitIds == InitWith({2}, {TRUE}, {0})

NextIds == \E bytes \in [1..IdBytes -> SampleBytes] : CallGenerateShortId(bytes)

SpecIds == InitIds /\ [][NextIds]_vars

---------------------------------------------------------------------------
(* Properties of the expiration policy (SpecPolicy) *)

\* the instant an expires_at text denotes, and the text of instant t
Instant(e) == e[1] * HoursPerDay + e[3]
Iso(t) == <<t \div HoursPerDay, CharT, t % HoursPerDay>>

HoursCall == resp.op = "parseExpirationHours"
\* the call's input is the decimal text of an integer in S
HoursIn(S) == ~ParseInt(resp.hours).nan /\ ParseInt(resp.hours).val \in S

\* C1: for an hours count h > 0, parseExpirationHours returns now + min(h, M)
\* hours under a finite maximum M, and now + h hours under max_hours = -1.
C1_PositiveHoursClamped ==
    (HoursCall /\ HoursIn(1..10000)) =>
        LET h == ParseInt(resp.hours).val IN
        resp.result = IF max_hours # -1 THEN Iso(resp.at + Min(h, max_hours))
                      ELSE Iso(resp.at + h)

\* C1, within the range of Date: the same, for counts where now + h hours is a
\* time value a Date can hold.
C1_PositiveHoursClampedInRange ==
    (HoursCall /\ HoursIn(1..(MaxTime - resp.at))) =>
        LET h == ParseInt(resp.hours).val IN
        resp.result = IF max_hours # -1 THEN Iso(resp.at + Min(h, max_hours))
                      ELSE Iso(resp.at + h)

\* expires_hours = 500 under max_hours = 168: clamped to now + 168
C1_Witness ==
    /\ HoursCall /\ HoursIn({500})
    /\ max_hours = 168
    /\ resp.result = Iso(resp.at + 168)

\* C2: for h in {0, -1}, allow_everlasting = false and a finite maximum M,
\* parseExpirationHours returns now + M hours.
C2_NeverRequestClamped ==
    (HoursCall /\ HoursIn({0, -1}) /\ ~allow_everlasting /\ max_hours # -1) =>
        resp.result = Iso(resp.at + max_hours)

\* C3: for h in {0, -1} and allow_everlasting = true, parseExpirationHours
\* returns null ("never"), whatever max_hours is.
C3_NeverRequestGranted ==
    (HoursCall /\ HoursIn({0, -1}) /\ allow_everlasting) => resp.result = Null

C3_Witness ==
    /\ HoursCall /\ HoursIn({0, -1}) /\ allow_everlasting
    /\ max_hours = 168
    /\ resp.result = Null

\* the instant parseExpiration reads from a matching `expires` value
Parsed(expiresIn) ==
    SetHours(IF expiresIn.valid THEN MakeDate(Num(expiresIn.day * HoursPerDay)) ELSE NaN,
             ParseInt(expiresIn.hourStr))

\* C5: for a date+hour value, parseExpiration returns null when the instant it
\* parsed is not strictly later than now; otherwise the earlier of that instant
\* and now + max_hours, or the instant itself under max_hours = -1.
C5_AbsoluteHint ==
    (resp.op = "parseExpiration" /\ resp.expires.kind = "match") =>
        LET p == Parsed(resp.expires) IN
        resp.result =
            IF p.nan \/ p.val <= resp.at THEN Null
            ELSE IF max_hours # -1 THEN Iso(Min(p.val, resp.at + max_hours))
            ELSE Iso(p.val)

\* a call whose instant lay beyond now + max_hours and came back clamped
C5_Witness ==
    /\ resp.op = "parseExpiration" /\ resp.expires.kind = "match"
    /\ max_hours = 2
    /\ ~Parsed(resp.expires).nan
    /\ Parsed(resp.expires).val > resp.at + max_hours
    /\ resp.result = Iso(resp.at + max_hours)

---------------------------------------------------------------------------
(* Properties of the upload handlers (SpecUpload) *)

\* this step is the callback of the i-th pending INSERT
InsertStep(i) == req[i].kind = "insert" /\ req' = RemoveAt(req, i)
\* ... and the INSERT stored its row
Inserted(i) ==
    /\ InsertStep(i)
    /\ rows[req[i].row.id] = NoRow
    /\ rows'[req[i].row.id] = req[i].row

\* C4: a request without any expiration field stores expires_at = null when
\* allow_everlasting is set, and now + max_hours when it is not and max_hours
\* is finite.
C4_NoHintFallsBack ==
    [][\A i \in 1..Len(req) :
          (Inserted(i) /\ req[i].hint = NoHint) =>
              LET stored == rows'[req[i].row.id].expires_at IN
              /\ allow_everlasting => stored = Null
              /\ (~allow_everlasting /\ max_hours # -1) =>
                    stored = Iso(req[i].at + max_hours)]_vars

\* what C6 asks of a stored expires_at, created at time t
InHorizon(e, t) ==
    e # Null => /\ Instant(e) > t
                /\ max_hours # -1 => Instant(e) <= t + max_hours

\* C6: under every integer max_hours, a record's expires_at, when present, is
\* strictly later than the time the handler ran and, when max_hours is finite,
\* no later than that time + max_hours.
C6_InHorizonAnyConfig ==
    [][\A i \in 1..Len(req) :
          Inserted(i) => InHorizon(req[i].row.expires_at, req[i].at)]_vars

\* C6, amended: the same under max_hours = -1 or max_hours >= 1.
C6_InHorizon ==
    [][\A i \in 1..Len(req) :
          (Inserted(i) /\ (max_hours = -1 \/ max_hours >= 1)) =>
              InHorizon(req[i].row.expires_at, req[i].at)]_vars

\* a record stored with an expires_at that the finite maximum cut down
C6_Witness ==
    /\ max_hours = 2
    /\ resp.op \in {"POST /api/upload", "POST /upload"}
    /\ resp.status \in {200, 302}
    /\ rows[resp.id] # NoRow
    /\ rows[resp.id].expires_at # Null
    /\ \E t \in NowStart..now : rows[resp.id].expires_at = Iso(t + max_hours)

\* C10: when the INSERT fails, the file the request wrote is no longer on disk
\* once the error response is sent.
C10_FailedInsertLeavesNoFile ==
    [][\A i \in 1..Len(req) :
          (InsertStep(i) /\ resp'.status = 500) =>
              req[i].row.filename \notin DOMAIN files']_vars

---------------------------------------------------------------------------
(* Properties of retrieval (Spec) *)

\* this step is the callback of the i-th pending SELECT, which returned no error
GetStep(i) == req[i].kind = "get" /\ req' = RemoveAt(req, i) /\ ~req[i].err

Passed(e) == e # Null /\ Instant(e) <= now

\* C7: while the row is present and its expires_at is <= now, each of the three
\* routes answers 410 and sends no content, with the file on disk or not.
C7_ExpiredIs410 ==
    [][\A i \in 1..Len(req) :
          (GetStep(i) /\ req[i].row # NoRow /\ Passed(req[i].row.expires_at)) =>
              resp'.status = 410 /\ resp'.body = <<>>]_vars

\* 410 answered for a record whose row is present and whose file is gone
C7_Witness ==
    /\ resp.op \in Routes
    /\ resp.status = 410
    /\ rows[resp.id] # NoRow
    /\ Passed(rows[resp.id].expires_at)
    /\ rows[resp.id].filename \notin DOMAIN files

\* C8: for a record uploaded with a finite expiration that has passed,
\* GET /f/:id answers 410 in every later state, the cleanup job having removed
\* the row or not.
C8_ExpiredIs410Forever ==
    [][\A i \in 1..Len(req) :
          (/\ GetStep(i) /\ req[i].op = "GET /f/:id"
           /\ \/ req[i].row # NoRow /\ Passed(req[i].row.expires_at)
              \/ req[i].row = NoRow /\ Passed(gone[req[i].id])) =>
              resp'.status = 410]_vars

\* C8, amended: GET /f/:id answers 410 for as long as the expired row is in
\* the table, and 404 once the row is gone, as for an id never issued.
C8_ExpiredIs410UntilReaped ==
    [][\A i \in 1..Len(req) :
          (GetStep(i) /\ req[i].op = "GET /f/:id") =>
              /\ (req[i].row # NoRow /\ Passed(req[i].row.expires_at)) =>
                    resp'.status = 410
              /\ req[i].row = NoRow => resp'.status = 404]_vars

\* 404 answered for an id whose expired row the cleanup job has deleted
C8_Witness ==
    /\ resp.op = "GET /f/:id"
    /\ resp.status = 404
    /\ rows[resp.id] = NoRow
    /\ Passed(gone[resp.id])

\* C9: each of the three routes answers 404 for an id without a row and for a
\* live record whose file is not on disk.
C9_MissingIs404 ==
    [][\A i \in 1..Len(req) :
          (/\ GetStep(i)
           /\ \/ req[i].row = NoRow
              \/ /\ ~Passed(req[i].row.expires_at)
                 /\ req[i].row.filename \notin DOMAIN files) =>
              resp'.status = 404]_vars

\* 404 answered for a live record whose file is not on disk
C9_Witness ==
    /\ resp.op \in Routes
    /\ resp.status = 404
    /\ rows[resp.id] # NoRow
    /\ ~Passed(rows[resp.id].expires_at)
    /\ rows[resp.id].filename \notin DOMAIN files

---------------------------------------------------------------------------
(* Properties of the stores (SpecClosed: no file is removed from outside) *)

UploadOps == {"POST /api/upload", "POST /upload"}
\* a success response of an upload route
UploadOk(r) == r.op \in UploadOps /\ r.status \in {200, 302}

\* C11: when an upload answers with success, the INSERT of this request has
\* completed and, in that state, the row of the id and the file named by its
\* stored name both exist.
C11_SuccessMeansStored ==
    [][/\ (resp' # resp /\ UploadOk(resp')) => \E i \in 1..Len(req) : Inserted(i)
       /\ \A i \in 1..Len(req) :
             (InsertStep(i) /\ UploadOk(resp')) =>
                 /\ rows'[req[i].row.id] = req[i].row
                 /\ req[i].row.filename \in DOMAIN files']_vars

\* the rows whose stored name is f
Owners(f) == {id \in Ids : rows[id] # NoRow /\ rows[id].filename = f}

\* C12: once POST /upload has answered and no upload request is in progress,
\* every file in the uploads directory is the stored name of exactly one row,
\* whatever fields the request carried (text_content and a file part together
\* included); stated here for the requests that answer with success.
C12_NoOrphanedContent ==
    (/\ \A i \in 1..Len(req) : req[i].kind # "insert"
     /\ resp.op = "POST /upload" /\ UploadOk(resp)) =>
        \A f \in DOMAIN files : Cardinality(Owners(f)) = 1

\* C13: in every reachable state, with no file removed from outside, the file
\* named by the stored name of every existing row is on disk.
C13_RowHasFile ==
    \A id \in Ids : rows[id] # NoRow => rows[id].filename \in DOMAIN files

\* C14: no step (an upload, one drawing the id of an existing record included,
\* a retrieval, a cleanup step) changes the row of an existing record that has
\* not expired, or the bytes of its file.
C14_RecordImmutable ==
    [][\A id \in Ids :
          (rows[id] # NoRow /\ ~IsExpired(rows[id].expires_at, now)) =>
              /\ rows'[id] = rows[id]
              /\ (/\ rows[id].filename \in DOMAIN files
                  /\ rows[id].filename \in DOMAIN files') =>
                     files'[rows[id].filename] = files[rows[id].filename]]_vars

---------------------------------------------------------------------------
(* Properties of the cleanup job (SpecReaper) *)

\* this step is the forEach of a cleanup run, which unlinks the files
UnlinkStep == Len(scans') < Len(scans)

\* C15: every row the cleanup job deletes, and every file of a row it unlinks,
\* belongs to a record whose expires_at is present and <= the current time;
\* a record without expires_at is never removed.
C15_ReapsOnlyExpired ==
    [][\A id \in Ids :
          /\ (rows[id] # NoRow /\ rows'[id] = NoRow) =>
                IsExpired(rows[id].expires_at, now)
          /\ (/\ UnlinkStep /\ rows[id] # NoRow
              /\ rows[id].filename \in DOMAIN files
              /\ rows[id].filename \notin DOMAIN files') =>
                IsExpired(rows[id].expires_at, now)]_vars

\* C16: the scan of a tick returns every record whose expires_at is present
\* and <= the current time, a record that expired earlier on the same UTC day
\* included.
C16_ScanFindsExpired ==
    \A id \in Ids :
        (rows[id] # NoRow /\ IsExpired(rows[id].expires_at, now)) => id \in SelectExpired

\* neither the row of id nor a file stored under id is left
Gone(id) == rows[id] = NoRow /\ \A f \in DOMAIN files : f.id # id

\* expired, and on a UTC day before the present one (the clock of the model
\* stops after MaxTicks hours; time that keeps advancing reaches the next day)
ExpiredEarlierDay(id) ==
    /\ rows[id] # NoRow
    /\ Passed(rows[id].expires_at)
    /\ rows[id].expires_at[1] < now \div HoursPerDay

\* C17: under fair scheduling of the clock, the cleanup job and its callbacks,
\* with no deletion failing for ever, every record whose expires_at has passed
\* is eventually gone: its row deleted and its file off the disk.
C17_ExpiredEventuallyGone ==
    \A id \in Ids : ExpiredEarlierDay(id) ~> Gone(id)

\* C18: when the file of a row a scan selected is not on disk, the forEach of
\* that run still completes and issues the DELETE of the row, and the DELETE,
\* unless it fails itself, removes the row.
C18_MissingFileStillReaped ==
    [][/\ \A i \in 1..Len(scans) :
             (UnlinkStep /\ scans' = RemoveAt(scans, i)) =>
                 \A e \in scans[i] :
                     e.filename \notin DOMAIN files => dels'[e.id] = dels[e.id] + 1
       /\ \A id \in Ids :
             (dels'[id] < dels[id] /\ rows' # rows) => rows'[id] = NoRow]_vars

\* a scan has selected a row whose file is no longer on disk
C18_Witness ==
    \E i \in 1..Len(scans) : \E e \in scans[i] :
        rows[e.id] # NoRow /\ e.filename \notin DOMAIN files

---------------------------------------------------------------------------
(* Properties of whole cleanup runs (SpecFair) *)

---------------------------------------------------------------------------
(* Properties of generateShortId (SpecIds) *)

Lowercase ==
    { "a", "b", "c", "d", "e", "f", "g", "h", "i", "j", "k", "l", "m",
      "n", "o", "p", "q", "r", "s", "t", "u", "v", "w", "x", "y", "z" }

\* C20: every identifier generateShortId returns has exactly 8 characters,
\* each a lowercase letter or a digit.
C20_IdIsEightChars ==
    resp.op = "generateShortId" =>
        /\ Len(resp.result) = 8
        /\ \A i \in 1..Len(resp.result) : resp.result[i] \in Lowercase \cup Digits

---------------------------------------------------------------------------
(* Properties of the request fields (SpecFields) *)

\* C21: POST /api/upload with text_content and custom_name and no file part
\* creates a text record and answers with its id; so no such request is
\* refused as carrying no payload.
C21_ApiTextUpload ==
    (resp.op = "POST /api/upload" /\ resp.status = 400) => resp.text = <<>>

\* the `expires` value of a request, body first
ExpiresOf(hint) == OrExpires(hint.bodyExpires, hint.queryExpires)
OnlyExpires(hint) ==
    hint.bodyHours = <<>> /\ hint.queryHours = <<>> /\ ExpiresOf(hint).kind # "absent"

\* C22: for an `expires` value and no expires_hours, a record stored by either
\* upload route carries the expires_at that POST /api/upload computes from it.
C22_SameExpiresField ==
    [][\A i \in 1..Len(req) :
          (Inserted(i) /\ OnlyExpires(req[i].hint)) =>
              req[i].row.expires_at = ApiExpiresAt(<<>>, ExpiresOf(req[i].hint), req[i].at)]_vars

\* C22, amended: POST /upload reads body.expires_hours alone; with it, the
\* record carries the expires_at POST /api/upload computes from the same
\* value, and without it expires_at is null whatever `expires` says.
C22_FormReadsHoursOnly ==
    [][\A i \in 1..Len(req) :
          (Inserted(i) /\ req[i].op = "POST /upload") =>
              req[i].row.expires_at =
                  IF req[i].hint.bodyHours = <<>> THEN Null
                  ELSE ApiExpiresAt(req[i].hint.bodyHours, NoExpires, req[i].at)]_vars

\* the form handler has built a row without expires_at for a request with `expires`
C22_Witness ==
    \E i \in 1..Len(req) :
        /\ req[i].kind = "insert" /\ req[i].op = "POST /upload"
        /\ OnlyExpires(req[i].hint)
        /\ req[i].row.expires_at = Null

\* this step is an upload request refused for its payload: none, or too large
RefusedStep ==
    /\ req' = req
    /\ resp'.op \in UploadOps /\ resp'.status \in {400, 413}
    /\ resp' # resp \/ files' # files

\* C23: an upload request answered 400 (no payload) or 413 (over the size
\* limit) leaves the rows and the files on disk exactly as they were.
C23_RefusalHasNoEffect ==
    [][RefusedStep => rows' = rows /\ files' = files]_vars

Records == {rows[id] : id \in {j \in Ids : rows[j] # NoRow}}

\* C24: for every record, stored_name is id followed by the extension field,
\* and the extension field is the extension of display_name.
C24_StoredNameIsIdPlusExtension ==
    \A r \in Records :
        /\ r.filename = StoredName(r.id, r.file_type)
        /\ r.file_type = ExtName(r.original_name)

\* C24, amended: stored_name is id followed by the extension of the uploaded
\* file's own name (of the custom name or paste.txt, else .txt, for a paste);
\* the extension field is the extension of display_name, .txt for a paste
\* whose name has none; the two agree for a file upload without custom_name
\* and for every paste.
C24_StoredNameAndExtension ==
    \A r \in Records :
        /\ r.filename.id = r.id
        /\ \/ r.file_type = ExtName(r.original_name)
           \/ /\ r.content_type = "text/plain" /\ ExtName(r.original_name) = <<>>
              /\ r.file_type = DotTxt
        /\ r.content_type = "text/plain" => r.filename.ext = r.file_type
        /\ IF r.content_type = "text/plain" THEN TRUE
           ELSE /\ r.filename.ext = ExtName(NameB)
                /\ r.original_name = NameB => r.filename.ext = r.file_type

\* a file stored under its own extension with the custom name's in file_type
C24_Witness ==
    \E r \in Records :
        /\ r.original_name = NameR
        /\ r.filename.ext = ExtName(NameB)
        /\ r.file_type = ExtName(NameR)

---------------------------------------------------------------------------
(* Failures inside a cleanup run (SpecFair, SpecOverlap) *)

\* C25: the row of an expired record is deleted by the cleanup job only once
\* its file is off the disk: when unlinking the file failed in this run the
\* row is kept, and the next scan selects the record again.
C25_RowKeptWhileFileRemains ==
    [][\A id \in Ids :
          (/\ rows[id] # NoRow /\ Passed(rows[id].expires_at)
           /\ rows'[id] = NoRow) =>
              rows[id].filename \notin DOMAIN files]_vars

\* C26: whatever unlink fails in the forEach of a cleanup run, the run goes
\* through every selected record and issues the DELETE of each; and a DELETE
\* that fails leaves the pending DELETE of every other record in place.
C26_PerRecordIndependence ==
    [][/\ \A i \in 1..Len(scans) :
             (UnlinkStep /\ scans' = RemoveAt(scans, i)) =>
                 \A e \in scans[i] :
                     /\ dels'[e.id] = dels[e.id] + 1
                     /\ e.filename \in DOMAIN files' => e.filename \in DOMAIN files
       /\ \A id \in Ids :
             (dels'[id] < dels[id] /\ rows' = rows) =>
                 \A o \in Ids \ {id} : dels'[o] = dels[o]]_vars

\* one run selected two records; the unlink of the first failed, the file of
\* the second was removed all the same, and both DELETEs are pending
C26_Witness ==
    \E a \in Ids, b \in Ids :
        /\ a < b
        /\ rows[a] # NoRow /\ rows[b] # NoRow
        /\ dels[a] > 0 /\ dels[b] > 0
        /\ rows[a].filename \in DOMAIN files
        /\ rows[b].filename \notin DOMAIN files

\* the files the entries of a scan name
FilesOf(found) == {e.filename : e \in found}

===========================================================================
